---- MODULE Spec2Model ----
(***************************************************************************)
(* WebAuthn dispatcher contract (soroban-contracts/webauthn-dispatcher).    *)
(*                                                                         *)
(* The contract keeps two pieces of durable state: instance storage with   *)
(* the verifier address under WEBAUTHN_VERIFIER, and persistent storage    *)
(* with one Map<(Address, BytesN<32>), bool> under the key "nonces".       *)
(* An invocation that panics is aborted by the host and none of its        *)
(* storage writes reach the ledger; an invocation that returns commits     *)
(* them.  Each entry point below is executed from its first line to its    *)
(* return or panic, in the order of the Rust source.                       *)
(***************************************************************************)
EXTENDS Integers, Naturals, Sequences, FiniteSets, TLC

\* ---------------------------------------------------------------- bounds
\* Width of the ledger timestamp in the model (u64 in the source).
TimeBits == 7
TimeMod == 2 ^ TimeBits
MaxTime == TimeMod - 1

\* lib.rs:74  intent.iat > current_time + 60
SKEW == 60

\* lib.rs:19  pub v: u32,  // Version (1)
SUPPORTED_VERSION == 1

\* ---------------------------------------------------------------- domains
Signers   == {"s1", "s2"}
Nonces    == {"n1", "n2"}
Verifiers == {"v1", "v2"}
Pairs     == Signers \X Nonces

\* Ledger times at which calls are made, and the iat / exp values of intents.
NowPoints == {0, 1, MaxTime}
IatPoints == {SKEW, SKEW + 1}
ExpPoints == {0, MaxTime}

\* BytesN<32> values: the all-zero array and one other value.
ZeroBytes32  == [i \in 1..32 |-> 0]
OtherBytes32 == [i \in 1..32 |-> 1]

\* ContractCallIntent.v: the supported version (1) and another one
Versions == {SUPPORTED_VERSION, SUPPORTED_VERSION + 1}

\* struct ContractCallIntent
ContractCallIntent ==
    [v : Versions, contract_id : {"c1"}, fn_name : {"f1"}, args : {<< >>},
     signer : Signers, nonce : Nonces, iat : IatPoints, exp : ExpPoints]

\* struct WebAuthnSignature, reduced to what a verifier would decide on:
\* the challenge embedded in client_data_json, and valid: would the verifier
\* contract accept signature / authenticator_data for the passkey?
WebAuthnSignature ==
    { [challenge |-> ZeroBytes32,  valid |-> TRUE],
      [challenge |-> OtherBytes32, valid |-> TRUE],
      [challenge |-> ZeroBytes32,  valid |-> FALSE] }

\* const WEBAUTHN_VERIFIER_CONTRACT and symbol_short!("nonces")
WEBAUTHN_VERIFIER_CONTRACT == "WEBAUTHN_VERIFIER"
NONCES_KEY == "nonces"

\* Panic messages of the source, and the arithmetic-overflow panic of rustc.
ERR_EXPIRED     == "Intent expired"
ERR_FUTURE      == "Intent issued in the future"
ERR_NONCE       == "Nonce already used"
ERR_NO_VERIFIER == "Verifier contract not initialized"
ERR_OVERFLOW    == "attempt to add with overflow"
OK              == "Ok"

VARIABLES
    instance,        \* instance storage  : key -> value
    persistent,      \* persistent storage: key -> value
    now,             \* env.ledger().timestamp()
    overflowChecks,  \* build profile: is integer overflow checked (panics)?
    last,            \* the call made by the last step and what it did
    completed,       \* history: pairs some call was dispatched for (returned)
    pc,              \* SpecConc: the line each in-flight dispatch is at
    req,             \* SpecConc: the arguments of each in-flight dispatch
    loc,             \* SpecConc: the local `nonces` map of each dispatch
    nftState,        \* LocationNFT: its instance and persistent storage
    nftLast,         \* LocationNFT: the call made by the last step
    mints            \* LocationNFT history: successful mints since initialize

vars == <<instance, persistent, now, overflowChecks, last, completed,
          pc, req, loc, nftState, nftLast, mints>>
nftv == <<nftState, nftLast, mints>>
hist == <<last, completed>>
conc == <<pc, req, loc>>

\* ---------------------------------------------------------------- helpers
\* Map::new(&env), and a storage with no keys
EmptyMap == << >>

\* storage.has(key) / storage.get(key).is_some()
Has(storage, key) == key \in DOMAIN storage

\* storage.set(key, value)
Set(storage, key, value) == (key :> value) @@ storage

\* env.storage().persistent().get("nonces").unwrap_or(Map::new(&env))
LoadNonces(pers) == IF Has(pers, NONCES_KEY) THEN pers[NONCES_KEY] ELSE EmptyMap

\* Variant of NonceSeen that tests the stored flag for false instead of
\* testing the presence of the key.
NonceSeen_flag_false(nonces, nonce_key) ==
    nonce_key \in DOMAIN nonces /\ nonces[nonce_key] = FALSE

\* nonces.get(nonce_key).is_some()
NonceSeen(nonces, nonce_key) == nonce_key \in DOMAIN nonces

\* Variant of ReserveNonce that starts from a new map instead of the loaded one.
ReserveNonce_fresh_map(nonces, nonce_key) == (nonce_key :> TRUE)

\* Variant of ReserveNonce that keys the record by the nonce alone, so that it
\* covers every signer.
ReserveNonce_any_signer(nonces, nonce_key) ==
    [k \in {<<s, nonce_key[2]>> : s \in Signers} |-> TRUE] @@ nonces

\* nonces.set(nonce_key, true)
ReserveNonce(nonces, nonce_key) == (nonce_key :> TRUE) @@ nonces

\* Variant of IsExpired with >= for >.
IsExpired_at_exp(current_time, intent) == current_time >= intent.exp

\* current_time > intent.exp
IsExpired(current_time, intent) == current_time > intent.exp

\* current_time + 60 on the timestamp's width: does it overflow?
AddOverflows(current_time) == current_time + SKEW > MaxTime

\* current_time + 60 when overflow is not checked: the sum wraps around
WrappingAdd(current_time) == (current_time + SKEW) % TimeMod

\* intent.iat > current_time + 60
IsIssuedInFuture(current_time, intent) == intent.iat > WrappingAdd(current_time)

\* Variant of VerifierMissing that falls back to a default address.
VerifierMissing_defaulted(inst) == FALSE

\* env.storage().instance().get(&WEBAUTHN_VERIFIER_CONTRACT) is None
VerifierMissing(inst) == ~Has(inst, WEBAUTHN_VERIFIER_CONTRACT)

\* encode_intent: pushes every field on a local Vec and returns Bytes::new(env)
encode_intent(intent) ==
    LET bytes == << intent.v % 256, intent.contract_id, intent.fn_name, intent.args,
                    intent.signer, intent.nonce, intent.iat, intent.exp >>
    IN  << >>

\* derive_challenge: returns BytesN::<32>::from_array(env, &[0u8; 32])
derive_challenge(intent_bytes) == ZeroBytes32

\* How an invocation ends: by a panic (the host aborts it and drops the
\* frame's storage writes) or by returning (the writes are committed).
\* trace lists the steps the invocation ran, in order.
Panic(msg, trace, frame) ==
    [result |-> msg, panicked |-> TRUE, trace |-> trace, frame |-> frame, ret |-> << >>]

Return(ret, trace, frame) ==
    [result |-> OK, panicked |-> FALSE, trace |-> trace, frame |-> frame, ret |-> ret]

\* Variant of execute_with_webauthn that loads the verifier address before
\* it tests the nonce.
execute_check_after_verifier(inst, pers, current_time, checked, intent, webauthn_signature) ==
    LET nonce_key == <<intent.signer, intent.nonce>>
        nonces    == LoadNonces(pers)
        stored    == Set(pers, NONCES_KEY, ReserveNonce(nonces, nonce_key))
    IN
    IF IsExpired(current_time, intent)
    THEN Panic(ERR_EXPIRED, <<"gate">>, pers)
    ELSE IF checked /\ AddOverflows(current_time)
    THEN Panic(ERR_OVERFLOW, <<"gate">>, pers)
    ELSE IF IsIssuedInFuture(current_time, intent)
    THEN Panic(ERR_FUTURE, <<"gate">>, pers)
    ELSE IF VerifierMissing(inst)
    THEN Panic(ERR_NO_VERIFIER, <<"gate", "verifier">>, pers)
    ELSE IF NonceSeen(nonces, nonce_key)
    THEN Panic(ERR_NONCE, <<"gate", "verifier", "load">>, pers)
    ELSE Return(<< >>,
                <<"gate", "verifier", "load", "store", "encode", "derive", "return">>,
                stored)

\* Variant of execute_with_webauthn that reserves the nonce before it runs
\* the expiration checks.
execute_reserve_first(inst, pers, current_time, checked, intent, webauthn_signature) ==
    LET nonce_key == <<intent.signer, intent.nonce>>
        nonces    == LoadNonces(pers)
        stored    == Set(pers, NONCES_KEY, ReserveNonce(nonces, nonce_key))
    IN
    IF NonceSeen(nonces, nonce_key)
    THEN Panic(ERR_NONCE, <<"load">>, pers)
    ELSE IF IsExpired(current_time, intent)
    THEN Panic(ERR_EXPIRED, <<"load", "store", "gate">>, stored)
    ELSE IF checked /\ AddOverflows(current_time)
    THEN Panic(ERR_OVERFLOW, <<"load", "store", "gate">>, stored)
    ELSE IF IsIssuedInFuture(current_time, intent)
    THEN Panic(ERR_FUTURE, <<"load", "store", "gate">>, stored)
    ELSE IF VerifierMissing(inst)
    THEN Panic(ERR_NO_VERIFIER, <<"load", "store", "gate", "verifier">>, stored)
    ELSE Return(<< >>,
                <<"load", "store", "gate", "verifier", "encode", "derive", "return">>,
                stored)

\* pub fn execute_with_webauthn: the body, run on the invocation's view of
\* the storage.  No step calls the verifier contract and none invokes the
\* target: lines 91-101 and 108-113 are comments, and line 117 returns
\* Bytes::new(&env).
execute_with_webauthn(inst, pers, current_time, checked, intent, webauthn_signature) ==
    IF IsExpired(current_time, intent)
    THEN Panic(ERR_EXPIRED, <<"gate">>, pers)
    ELSE IF checked /\ AddOverflows(current_time)
    THEN Panic(ERR_OVERFLOW, <<"gate">>, pers)
    ELSE IF IsIssuedInFuture(current_time, intent)
    THEN Panic(ERR_FUTURE, <<"gate">>, pers)
    ELSE
      LET nonce_key == <<intent.signer, intent.nonce>>
          nonces    == LoadNonces(pers)
      IN
      IF NonceSeen(nonces, nonce_key)
      THEN Panic(ERR_NONCE, <<"gate", "load">>, pers)
      ELSE
        LET stored == Set(pers, NONCES_KEY, ReserveNonce(nonces, nonce_key))
        IN
        IF VerifierMissing(inst)
        THEN Panic(ERR_NO_VERIFIER, <<"gate", "load", "store", "verifier">>, stored)
        ELSE
          LET verifier_contract == inst[WEBAUTHN_VERIFIER_CONTRACT]
              intent_bytes      == encode_intent(intent)
              challenge         == derive_challenge(intent_bytes)
          IN  Return(<< >>,
                     <<"gate", "load", "store", "verifier", "encode", "derive", "return">>,
                     stored)

\* The storage the ledger holds after an invocation that ended with outcome.
Commit(pers, outcome) == IF outcome.panicked THEN pers ELSE outcome.frame

\* Variant of is_nonce_used that looks the pair up in the wrong order.
is_nonce_used_swapped(pers, signer, nonce) ==
    NonceSeen(LoadNonces(pers), <<nonce, signer>>)

\* pub fn is_nonce_used
is_nonce_used(pers, signer, nonce) == NonceSeen(LoadNonces(pers), <<signer, nonce>>)

\* ------------------------------------------------ one invocation at a time
Procs == {1, 2}
NoReq == [op |-> "none"]

\* LocationNFT before any call: no instance keys, no persistent keys.  The
\* persistent storage is kept by kind of key: own holds the DataKey {owner,
\* token_id} keys, meta the (token_id, METADATA) and locn the (token_id,
\* LOCATION) entries.
NftEmpty == [inst |-> EmptyMap, own |-> {}, meta |-> EmptyMap, locn |-> EmptyMap]

Init ==
    /\ nftState = NftEmpty
    /\ nftLast = [op |-> "none"]
    /\ mints = 0
    /\ instance = EmptyMap
    /\ persistent = EmptyMap
    /\ now \in NowPoints
    /\ overflowChecks \in BOOLEAN
    /\ last = [op |-> "none"]
    /\ completed = {}
    /\ pc = [p \in Procs |-> "idle"]
    /\ req = [p \in Procs |-> NoReq]
    /\ loc = [p \in Procs |-> EmptyMap]

\* pub fn initialize(env, verifier_contract)
Initialize(verifier_contract) ==
    /\ instance' = Set(instance, WEBAUTHN_VERIFIER_CONTRACT, verifier_contract)
    /\ last' = [op |-> "initialize", verifier |-> verifier_contract,
                pre |-> persistent, preInst |-> instance]
    /\ UNCHANGED <<nftv, persistent, now, overflowChecks, completed, conc>>

\* Did the invocation with this trace run the step?
InTrace(trace, step) == \E i \in 1..Len(trace) : trace[i] = step

\* One invocation of execute_with_webauthn, from entry to return or panic.
ExecuteWithWebauthn(intent, sig) ==
    LET out == execute_with_webauthn(instance, persistent, now, overflowChecks, intent, sig)
        key == <<intent.signer, intent.nonce>>
    IN
    /\ persistent' = Commit(persistent, out)
    /\ completed' = IF out.result = OK THEN completed \cup {key} ELSE completed
    /\ last' = [op |-> "execute", intent |-> intent, sig |-> sig, time |-> now,
                result |-> out.result, trace |-> out.trace, ret |-> out.ret,
                initialized |-> Has(instance, WEBAUTHN_VERIFIER_CONTRACT),
                usedBefore |-> is_nonce_used(persistent, intent.signer, intent.nonce),
                pre |-> persistent, preInst |-> instance,
                completedBefore |-> key \in completed]
    /\ UNCHANGED <<nftv, instance, now, overflowChecks, conc>>

\* One invocation of is_nonce_used.
IsNonceUsed(signer, nonce) ==
    /\ last' = [op |-> "is_nonce_used", signer |-> signer, nonce |-> nonce,
                ret |-> is_nonce_used(persistent, signer, nonce),
                pre |-> persistent, preInst |-> instance]
    /\ UNCHANGED <<nftv, instance, persistent, now, overflowChecks, completed, conc>>

\* The ledger closes and its timestamp moves forward.
AdvanceTime(t) ==
    /\ t > now
    /\ now' = t
    /\ last' = [op |-> "advance"]
    /\ UNCHANGED <<nftv, instance, persistent, overflowChecks, completed, conc>>

Next ==
    \/ \E v \in Verifiers : Initialize(v)
    \/ \E intent \in ContractCallIntent, sig \in WebAuthnSignature :
          ExecuteWithWebauthn(intent, sig)
    \/ \E s \in Signers, n \in Nonces : IsNonceUsed(s, n)
    \/ \E t \in NowPoints : AdvanceTime(t)

Spec == Init /\ [][Next]_vars

\* ------------------------------------------- two invocations in flight
\* SpecConc runs execute_with_webauthn for two callers at once, one source
\* line group per step, on a dispatcher that initialize has configured.  The
\* load of the "nonces" map (line 80) and the store of the updated map
\* (line 85) are separate steps.  Both invocations run in the same ledger, so
\* they read the same timestamp.
InitConc ==
    /\ nftState = NftEmpty
    /\ nftLast = [op |-> "none"]
    /\ mints = 0
    /\ \E v \in Verifiers : instance = Set(EmptyMap, WEBAUTHN_VERIFIER_CONTRACT, v)
    /\ persistent = EmptyMap
    /\ now \in NowPoints
    /\ overflowChecks \in BOOLEAN
    /\ last = [op |-> "none"]
    /\ completed = {}
    /\ pc = [p \in Procs |-> "idle"]
    /\ req = [p \in Procs |-> NoReq]
    /\ loc = [p \in Procs |-> EmptyMap]

ReqKey(p) == <<req[p].intent.signer, req[p].intent.nonce>>

\* The invocation ends with a panic.
Reject(p, msg) ==
    /\ pc' = [pc EXCEPT ![p] = "rejected"]
    /\ req' = [req EXCEPT ![p].result = msg]

\* A caller submits execute_with_webauthn(intent, sig, ...); the body never
\* reads the signature bundle.
Submit(p, intent, sig) ==
    /\ pc[p] = "idle"
    /\ pc' = [pc EXCEPT ![p] = "gate"]
    /\ req' = [req EXCEPT ![p] = [op |-> "execute", intent |-> intent, result |-> "pending"]]
    /\ UNCHANGED <<nftv, instance, persistent, now, overflowChecks, hist, loc>>

\* lines 70-76
GateStep(p) ==
    /\ pc[p] = "gate"
    /\ IF IsExpired(now, req[p].intent)
       THEN Reject(p, ERR_EXPIRED)
       ELSE IF overflowChecks /\ AddOverflows(now)
       THEN Reject(p, ERR_OVERFLOW)
       ELSE IF IsIssuedInFuture(now, req[p].intent)
       THEN Reject(p, ERR_FUTURE)
       ELSE pc' = [pc EXCEPT ![p] = "load"] /\ UNCHANGED req
    /\ UNCHANGED <<nftv, instance, persistent, now, overflowChecks, hist, loc>>

\* line 80
LoadStep(p) ==
    /\ pc[p] = "load"
    /\ loc' = [loc EXCEPT ![p] = LoadNonces(persistent)]
    /\ pc' = [pc EXCEPT ![p] = "check"]
    /\ UNCHANGED <<nftv, instance, persistent, now, overflowChecks, hist, req>>

\* lines 81-84
CheckStep(p) ==
    /\ pc[p] = "check"
    /\ IF NonceSeen(loc[p], ReqKey(p))
       THEN Reject(p, ERR_NONCE) /\ UNCHANGED loc
       ELSE /\ loc' = [loc EXCEPT ![p] = ReserveNonce(loc[p], ReqKey(p))]
            /\ pc' = [pc EXCEPT ![p] = "store"]
            /\ UNCHANGED req
    /\ UNCHANGED <<nftv, instance, persistent, now, overflowChecks, hist>>

\* line 85
StoreStep(p) ==
    /\ pc[p] = "store"
    /\ persistent' = Set(persistent, NONCES_KEY, loc[p])
    /\ pc' = [pc EXCEPT ![p] = "verifier"]
    /\ UNCHANGED <<nftv, instance, now, overflowChecks, hist, req, loc>>

\* lines 88-117: the verifier address is there, the invocation returns
ReturnStep(p) ==
    /\ pc[p] = "verifier"
    /\ ~VerifierMissing(instance)
    /\ pc' = [pc EXCEPT ![p] = "done"]
    /\ req' = [req EXCEPT ![p].result = OK]
    /\ UNCHANGED <<nftv, instance, persistent, now, overflowChecks, hist, loc>>

NextConc ==
    \E p \in Procs :
        \/ \E intent \in ContractCallIntent, sig \in WebAuthnSignature :
              Submit(p, intent, sig)
        \/ GateStep(p)
        \/ LoadStep(p)
        \/ CheckStep(p)
        \/ StoreStep(p)
        \/ ReturnStep(p)

SpecConc == InitConc /\ [][NextConc]_vars

\* ------------------------------------------------------- encode_intent
\* SpecEncode applies encode_intent and derive_challenge to two intents whose
\* eight fields all vary.
EncodeIntents ==
    [v : Versions, contract_id : {"c1", "c2"}, fn_name : {"f1", "f2"},
     args : {<< >>, << <<1>> >>}, signer : Signers, nonce : Nonces,
     iat : IatPoints, exp : ExpPoints]

InitEncode == Init /\ now = 0 /\ overflowChecks = FALSE

EncodeTwo(i1, i2) ==
    /\ last' = [op |-> "encode", i1 |-> i1, i2 |-> i2,
                b1 |-> encode_intent(i1), b2 |-> encode_intent(i2),
                c1 |-> derive_challenge(encode_intent(i1)),
                c2 |-> derive_challenge(encode_intent(i2))]
    /\ UNCHANGED <<nftv, instance, persistent, now, overflowChecks, completed, conc>>

\* One application per behaviour, from the initial state.
NextEncode ==
    /\ last.op = "none"
    /\ \E i1 \in EncodeIntents, i2 \in EncodeIntents : EncodeTwo(i1, i2)

SpecEncode == InitEncode /\ [][NextEncode]_vars

\* ------------------------------------------------------------ LocationNFT
\* soroban-contracts/location-nft.  SpecNFT runs its entry points one
\* invocation per step.
\* Width of u32 (SUPPLY) in the model, and the cap on the history counter.
SupplyBits == 2
MaxMints == 4
U32Mod == 2 ^ SupplyBits
MaxU32 == U32Mod - 1

NftAddrs == {"a1", "a2"}
TokenIds == {1, 2}
Latitudes == {"lat1", "lat2"}

ERR_EXISTS    == "Error(Contract, #2)"
ERR_NOT_OWNER == "Error(Contract, #3)"

\* struct DataKey
DataKey(owner, token_id) == [owner |-> owner, token_id |-> token_id]

\* The arguments of mint.
MintArgs ==
    [to : NftAddrs, token_id : TokenIds, name : {"name"}, symbol : {"sym"},
     uri : {"uri"}, latitude : {"lat1"}, longitude : {"lon1"}, radius : {10}]

\* pub fn is_owner
is_owner(st, owner, token_id) == DataKey(owner, token_id) \in st.own

\* pub fn total_supply: instance().get("SUPPLY").unwrap_or(0)
total_supply(st) == IF Has(st.inst, "SUPPLY") THEN st.inst["SUPPLY"] ELSE 0

\* pub fn initialize
nft_initialize(st, admin, name, symbol) ==
    [st EXCEPT !.inst =
        Set(Set(Set(Set(st.inst, "ADMIN", admin), "NAME", name), "SYMBOL", symbol),
            "SUPPLY", 0)]

\* pub fn mint: the result and the storage the ledger holds afterwards (an
\* overflow panic aborts the invocation and drops its writes).
mint(st, time, checked, a) ==
    LET data_key == DataKey(a.to, a.token_id) IN
    IF data_key \in st.own
    THEN [result |-> ERR_EXISTS, st |-> st]
    ELSE
      LET metadata == [name |-> a.name, symbol |-> a.symbol, uri |-> a.uri,
                       latitude |-> a.latitude, longitude |-> a.longitude,
                       radius |-> a.radius, created_at |-> time]
          location_data == [latitude |-> a.latitude, longitude |-> a.longitude,
                            radius |-> a.radius]
          current_supply == total_supply(st)
          written == [st EXCEPT !.own = @ \cup {data_key},
                                !.meta = Set(@, a.token_id, metadata),
                                !.locn = Set(@, a.token_id, location_data)]
      IN
      IF checked /\ current_supply + 1 > MaxU32
      THEN [result |-> ERR_OVERFLOW, st |-> st]
      ELSE [result |-> OK,
            st |-> [written EXCEPT !.inst =
                       Set(@, "SUPPLY", (current_supply + 1) % U32Mod)]]

\* Variant of transfer that does not remove the old owner's key.
transfer_keep_old(st, from, to, token_id) ==
    IF DataKey(from, token_id) \notin st.own
    THEN [result |-> ERR_NOT_OWNER, st |-> st]
    ELSE [result |-> OK, st |-> [st EXCEPT !.own = @ \cup {DataKey(to, token_id)}]]

\* pub fn transfer
transfer(st, from, to, token_id) ==
    LET data_key == DataKey(from, token_id)
        new_data_key == DataKey(to, token_id)
    IN
    IF data_key \notin st.own
    THEN [result |-> ERR_NOT_OWNER, st |-> st]
    ELSE [result |-> OK,
          st |-> [st EXCEPT !.own = (@ \ {data_key}) \cup {new_data_key}]]

\* pub fn update_location
update_location(st, token_id, latitude, longitude, radius) ==
    [st EXCEPT !.locn = Set(@, token_id,
        [latitude |-> latitude, longitude |-> longitude, radius |-> radius])]

dispatcher == <<instance, persistent, now, overflowChecks, last, completed, conc>>

InitNFT == Init /\ now = 0

NftInitialize(admin, name, symbol) ==
    /\ nftState' = nft_initialize(nftState, admin, name, symbol)
    /\ nftLast' = [op |-> "initialize", pre |-> nftState]
    /\ mints' = 0
    /\ UNCHANGED dispatcher

Mint(a) ==
    LET out == mint(nftState, now, overflowChecks, a) IN
    /\ mints < MaxMints
    /\ nftState' = out.st
    /\ nftLast' = [op |-> "mint", to |-> a.to, token_id |-> a.token_id,
                   result |-> out.result, pre |-> nftState]
    /\ mints' = IF out.result = OK THEN mints + 1 ELSE mints
    /\ UNCHANGED dispatcher

Transfer(from, to, token_id) ==
    LET out == transfer(nftState, from, to, token_id) IN
    /\ nftState' = out.st
    /\ nftLast' = [op |-> "transfer", from |-> from, to |-> to, token_id |-> token_id,
                   result |-> out.result, pre |-> nftState]
    /\ UNCHANGED <<mints, dispatcher>>

UpdateLocation(token_id, latitude, longitude, radius) ==
    /\ nftState' = update_location(nftState, token_id, latitude, longitude, radius)
    /\ nftLast' = [op |-> "update_location", token_id |-> token_id, pre |-> nftState]
    /\ UNCHANGED <<mints, dispatcher>>

NextNFT ==
    \/ \E admin \in {"a1"} : NftInitialize(admin, "name", "sym")
    \/ \E a \in MintArgs : Mint(a)
    \/ \E from \in NftAddrs, to \in NftAddrs, id \in TokenIds : Transfer(from, to, id)
    \/ \E id \in TokenIds, lat \in Latitudes : UpdateLocation(id, lat, "lon1", 10)

SpecNFT == InitNFT /\ [][NextNFT]_vars

\* ---------------------------------------------------------------- claims
\* The last step was an execute_with_webauthn invocation.
IsExec == last.op = "execute"

\* The last invocation ran the step.
Ran(step) == InTrace(last.trace, step)

\* In the trace, some occurrence of step a comes before some occurrence of b.
Precedes(trace, a, b) ==
    \E i \in 1..Len(trace), j \in 1..Len(trace) : i < j /\ trace[i] = a /\ trace[j] = b

\* C1 (as stated), for two calls in a row: when a call carrying a (signer,
\* nonce) pair got past the nonce check, the next call carrying that pair
\* stops at the nonce check and is rejected with "Nonce already used",
\* whatever its other fields and signature.
C1_LaterCallRejectedAsNonceUsed ==
    [][ ( /\ IsExec /\ Ran("store")
          /\ last'.op = "execute"
          /\ last'.intent.signer = last.intent.signer
          /\ last'.intent.nonce = last.intent.nonce )
        => ( /\ ~InTrace(last'.trace, "store")
             /\ last'.result = ERR_NONCE ) ]_vars

\* C1 (amended): for every (signer, nonce) pair at most one call carrying it
\* returns a result; every call carrying the pair after that one fails and
\* reserves nothing, with "Nonce already used" whenever it passes the
\* expiration gate.
C1_AtMostOneDispatchPerPair ==
    (IsExec /\ last.completedBefore) =>
        /\ last.result # OK
        /\ ~Ran("store")
        /\ Ran("load") => last.result = ERR_NONCE

C1_Witness == IsExec /\ last.completedBefore /\ last.result = ERR_NONCE

\* C2: two dispatches in flight for the same (signer, nonce), with the load
\* and the store of the "nonces" map as separate steps, never both get past
\* the nonce check and return.
C2_NoTwoDispatchesForOnePair ==
    ~ \E p, q \in Procs :
        /\ p # q
        /\ pc[p] = "done" /\ pc[q] = "done"
        /\ ReqKey(p) = ReqKey(q)

\* C3: a call whose signature bundle embeds a challenge other than
\* derive_challenge(encode_intent(intent)) never returns a result.
C3_ChallengeBinding ==
    (IsExec /\ last.sig.challenge # derive_challenge(encode_intent(last.intent)))
        => last.result # OK

\* C4: a call returns a result only after the expiration gate, then the nonce
\* reservation, then a call of the verification delegate that answered ok;
\* a bundle the delegate rejects never yields a result.
C4_NoPartialAuthorization ==
    IsExec =>
        /\ last.result = OK =>
              /\ Precedes(last.trace, "gate", "store")
              /\ Precedes(last.trace, "store", "verify")
              /\ Precedes(last.trace, "verify", "return")
        /\ ~last.sig.valid => last.result # OK

\* C5: with expires-at = T, a call at ledger time T is not rejected as
\* expired, and a call at any ledger time >= T + 1 fails with "Intent expired".
C5_ExpiryBoundary ==
    IsExec =>
        /\ last.time = last.intent.exp => last.result # ERR_EXPIRED
        /\ last.time >= last.intent.exp + 1 => last.result = ERR_EXPIRED

C5_Witness ==
    IsExec /\ last.time = last.intent.exp /\ last.result = OK

\* C6: for an unexpired intent with issued-at = T, the expiration gate passes
\* whenever current_time + 60 >= T and fails with "Intent issued in the
\* future" whenever T > current_time + 60, for every current_time of the
\* timestamp's range, the sum being the mathematical one.
C6_IssuedInFutureBoundary ==
    (IsExec /\ last.time <= last.intent.exp) =>
        /\ last.time + SKEW >= last.intent.iat => Ran("load")
        /\ last.intent.iat > last.time + SKEW => last.result = ERR_FUTURE

\* C7: a call rejected as expired or as issued in the future has written
\* nothing: no storage step ran before the rejection, the persistent storage
\* is what it was, and is_nonce_used of the intent's pair is false if it was.
C7_GateBeforeStorage ==
    (IsExec /\ last.result \in {ERR_EXPIRED, ERR_FUTURE}) =>
        /\ ~Ran("load") /\ ~Ran("store")
        /\ persistent = last.pre
        /\ ~last.usedBefore =>
              ~is_nonce_used(persistent, last.intent.signer, last.intent.nonce)

C7_Witness ==
    /\ IsExec /\ last.result = ERR_EXPIRED /\ ~last.usedBefore
    /\ ~is_nonce_used(persistent, last.intent.signer, last.intent.nonce)

\* C8: a call made before any initialize never returns a result, and when it
\* gets as far as loading the verifier address it fails with "Verifier
\* contract not initialized".
C8_FailClosedWithoutVerifier ==
    (IsExec /\ ~last.initialized) =>
        /\ last.result # OK
        /\ Ran("verifier") => last.result = ERR_NO_VERIFIER

C8_Witness ==
    IsExec /\ ~last.initialized /\ Ran("verifier") /\ last.result = ERR_NO_VERIFIER

\* C9: every pair a dispatch has completed for is recorded as used in the
\* state the dispatch ends in and in every later state, and is_nonce_used
\* answers true for it.
C9_ReplayRecordsPermanent ==
    /\ \A k \in completed : is_nonce_used(persistent, k[1], k[2])
    /\ (last.op = "is_nonce_used" /\ <<last.signer, last.nonce>> \in completed)
          => last.ret = TRUE

C9_Witness ==
    /\ IsExec /\ last.result = OK
    /\ \E k \in completed :
          /\ k # <<last.intent.signer, last.intent.nonce>>
          /\ is_nonce_used(persistent, k[1], k[2])

\* C10: a call that reserved its nonce and then failed (at the load of the
\* verifier address) leaves the pair consumed: is_nonce_used is true after it.
C10_NonceBurnedOnFailedVerification ==
    (IsExec /\ Ran("store") /\ last.result # OK) =>
        is_nonce_used(persistent, last.intent.signer, last.intent.nonce)

\* C11: a call rejected with "Nonce already used" changes nothing: the
\* persistent and the instance storage are what they were, and the call ran no
\* store, did not read or call the verifier and did not invoke the target.
C11_ReplayRejectionChangesNothing ==
    (IsExec /\ last.result = ERR_NONCE) =>
        /\ persistent = last.pre
        /\ instance = last.preInst
        /\ ~Ran("store") /\ ~Ran("verifier") /\ ~Ran("verify") /\ ~Ran("invoke")

C11_Witness ==
    /\ IsExec /\ last.result = ERR_NONCE /\ last.initialized
    /\ persistent = last.pre /\ instance = last.preInst

\* C12: encode_intent is injective: two intents have the same encoding exactly
\* when they are equal in every field.
C12_EncodingInjective ==
    last.op = "encode" => ((last.b1 = last.b2) <=> (last.i1 = last.i2))

\* C13: a call whose intent carries a version other than the supported one
\* never returns a result.
C13_UnsupportedVersionRejected ==
    (IsExec /\ last.intent.v # SUPPORTED_VERSION) => last.result # OK

\* The number of times the trace holds the step.
CountIn(trace, step) == Cardinality({i \in 1..Len(trace) : trace[i] = step})

\* C14: every call that returns a result has invoked the intent's function on
\* the intent's target exactly once.
C14_RoutedToTarget ==
    (IsExec /\ last.result = OK) => CountIn(last.trace, "invoke") = 1

\* C15: the first initialize(V) stores V as the verifier reference, and once
\* the reference is set no step changes it: no execute_with_webauthn, no
\* is_nonce_used and no further initialize.
C15_VerifierSetOnce ==
    [][ /\ (last'.op = "initialize" /\ VerifierMissing(instance))
            => instance'[WEBAUTHN_VERIFIER_CONTRACT] = last'.verifier
        /\ ~VerifierMissing(instance) => instance' = instance ]_vars

\* C16: is_nonce_used(signer, nonce) returns true exactly when the "nonces"
\* map in persistent storage holds the pair (false when there is no map), and
\* the call leaves the persistent and the instance storage unchanged.
C16_IsNonceUsedPureRead ==
    last.op = "is_nonce_used" =>
        /\ last.ret = ( /\ NONCES_KEY \in DOMAIN persistent
                        /\ <<last.signer, last.nonce>> \in DOMAIN persistent[NONCES_KEY] )
        /\ last.ret = (<<last.signer, last.nonce>> \in completed)
        /\ persistent = last.pre
        /\ instance = last.preInst

C16_Witness ==
    /\ last.op = "is_nonce_used" /\ last.ret = TRUE
    /\ \E k \in Pairs : k # <<last.signer, last.nonce>> /\ k \notin completed

\* Is the pair recorded in the "nonces" map of this persistent storage?
Recorded(pers, k) == NONCES_KEY \in DOMAIN pers /\ k \in DOMAIN pers[NONCES_KEY]

\* C17: an execute_with_webauthn call changes the record of its own (signer,
\* nonce) pair at most: every other pair (same nonce with another signer,
\* same signer with another nonce) is recorded after the call exactly when it
\* was before.
C17_PerPairIsolation ==
    IsExec =>
        \A k \in Pairs \ {<<last.intent.signer, last.intent.nonce>>} :
            Recorded(persistent, k) <=> Recorded(last.pre, k)

C17_Witness ==
    /\ IsExec /\ last.result = OK
    /\ \E s \in Signers \ {last.intent.signer} :
          ~Recorded(persistent, <<s, last.intent.nonce>>)
    /\ \E n \in Nonces \ {last.intent.nonce} :
          /\ Recorded(last.pre, <<last.intent.signer, n>>)
          /\ Recorded(persistent, <<last.intent.signer, n>>)
\* The addresses is_owner reports as owners of a token.
OwnersOf(st, token_id) == {o \in NftAddrs : is_owner(st, o, token_id)}

\* C18: at every reachable state of LocationNFT and for every token id there
\* are no two distinct addresses that is_owner both reports as owner.
C18_SingleOwnership ==
    \A id \in TokenIds : Cardinality(OwnersOf(nftState, id)) <= 1

\* C19: transfer(from, to, id) succeeds exactly when from owned id before the
\* call; on success to owns id, from does not when from # to, and total_supply,
\* metadata and location are as before; otherwise it returns contract error 3
\* and all state is as before.
C19_TransferMovesOwnership ==
    nftLast.op = "transfer" =>
        LET pre == nftLast.pre
            owned == is_owner(pre, nftLast.from, nftLast.token_id)
        IN
        /\ (nftLast.result = OK) <=> owned
        /\ owned =>
            /\ is_owner(nftState, nftLast.to, nftLast.token_id)
            /\ nftLast.from # nftLast.to =>
                  ~is_owner(nftState, nftLast.from, nftLast.token_id)
            /\ total_supply(nftState) = total_supply(pre)
            /\ nftState.inst = pre.inst
            /\ nftState.meta = pre.meta
            /\ nftState.locn = pre.locn
        /\ ~owned =>
            /\ nftLast.result = ERR_NOT_OWNER
            /\ nftState = pre

\* A successful transfer between two distinct addresses has just run.
C19_Witness ==
    /\ nftLast.op = "transfer"
    /\ nftLast.result = OK
    /\ nftLast.from # nftLast.to
    /\ is_owner(nftState, nftLast.to, nftLast.token_id)

\* C20: a mint for an existing (to, token_id) pair returns contract error 2
\* and leaves ownership, metadata, location and total_supply as they were;
\* every successful mint increases total_supply by exactly 1, and total_supply
\* equals the number of successful mints since initialize.
C20_MintCountsSupply ==
    /\ nftLast.op = "mint" =>
        /\ is_owner(nftLast.pre, nftLast.to, nftLast.token_id) =>
              /\ nftLast.result = ERR_EXISTS
              /\ nftState = nftLast.pre
        /\ nftLast.result = OK =>
              total_supply(nftState) = total_supply(nftLast.pre) + 1
    /\ total_supply(nftState) = mints

====
